---- MODULE Spec2Model ----
(***************************************************************************)
(* Model of the mqtt-service message handlers (src/src/utils.py and the    *)
(* Pub/Sub callback of src/src/mqtt-to-bigquery.py).                       *)
(*                                                                         *)
(* The Pub/Sub subscriber runs callback() on a pool of threads, so several *)
(* handlers run at once against the same Datastore, Cloud Storage and      *)
(* BigQuery.  Every handler is a sequence of steps, one per call to a      *)
(* store; pc[h] is the place of handler h in its code and loc[h] holds its *)
(* local variables.                                                        *)
(***************************************************************************)
EXTENDS Integers, Sequences, FiniteSets, TLC

\* ------------------------------------------------------------------ bounds

\* Messages received by the service in one behaviour.
MaxMsgs == 3

\* Largest totalChunks of a chunked image.
MaxChunks == 3

\* ImageUpload notices received, and files uploaded, in one behaviour.
MaxNotices == 2
MaxUploads == 1

\* Pub/Sub messages delivered to the callback in one behaviour.
MaxDeliveries == 2

\* Messages received in one behaviour of the sequential history run.
MaxSeqMsgs == 150

\* ------------------------------------------------------ program constants

\* maximum number of values in each env. var list
DS_env_vars_MAX_size == 100

\* for _ in range( 15 ): the transaction attempts of save_data_to_Device
TransactionAttempts == 15

\* NUM_RETRIES = 3: "should be enough retries to insert into BQ"
NUM_RETRIES == 3

\* time.sleep(10): the seconds between two polls of the upload watcher
PollSeconds == 10

\* while delta.total_seconds() <= 5 * 60: the polling window, in seconds
WindowSeconds == 300

\* delta.total_seconds() >= 2 * 60 * 60: the age of a stale upload, in seconds
StaleSeconds == 7200

\* ---------------------------------------------------------------- universe

Handlers == {"h1", "h2"}
\* The devices that send, and the devices that have records in the stores.
Devices == {"D1"}
AllDevices == {"D1", "D2"}
MsgIds == {"M1", "M2"}
ChunkNums == 0 .. (MaxChunks - 1)
Ids == AllDevices \X MsgIds
Vars == {"temp", "status"}

messageType_EnvVar == "EnvVar"
messageType_CommandReply == "CommandReply"
messageType_Image == "Image"
messageType_ImageUpload == "ImageUpload"

\* The camera variable and the image type of the chunked images (one value
\* each: no handler branches on them).
CameraVar == "webcam"
ImageType == "png"

\* ----------------------------------------------------------------- base64

\* A base64 text is a sequence of sextets 0..63; PAD is the '=' character.
PAD == 64

\* binascii.a2b_base64 as base64.b64decode( s ) calls it (not strict): every
\* four sextets give three bytes, a complete pad sequence ends the input
\* (what follows it is not read), and input ending inside a quad is an error.
RECURSIVE B64Scan(_, _, _, _, _, _)
B64Scan(s, i, quad, left, pads, out) ==
    IF i > Len(s)
    THEN [ok |-> quad = 0, bytes |-> IF quad = 0 THEN out ELSE <<>>]
    ELSE IF s[i] = PAD
         THEN IF quad >= 2 /\ quad + pads + 1 >= 4
              THEN [ok |-> TRUE, bytes |-> out]
              ELSE B64Scan(s, i + 1, quad, left,
                           IF quad >= 2 THEN pads + 1 ELSE pads, out)
         ELSE CASE quad = 0 -> B64Scan(s, i + 1, 1, s[i], 0, out)
                [] quad = 1 -> B64Scan(s, i + 1, 2, s[i] % 16, 0,
                                       Append(out, left * 4 + (s[i] \div 16)))
                [] quad = 2 -> B64Scan(s, i + 1, 3, s[i] % 4, 0,
                                       Append(out, left * 16 + (s[i] \div 4)))
                [] OTHER    -> B64Scan(s, i + 1, 0, 0, 0,
                                       Append(out, left * 64 + s[i]))

b64decode(s) == B64Scan(s, 1, 0, 0, 0, <<>>)

\* ------------------------------------------------------- chunked messages

\* totalChunks is a property of the image: every chunk of one messageId
\* declares the same total.  M1 has MaxChunks chunks, M2 one fewer, so a
\* chunk number of ChunkNums can be out of range for M2.
TotalChunks(m) == IF m = "M1" THEN MaxChunks ELSE MaxChunks - 1

\* The base64 text of chunk i of image m: the device cuts the base64 text of
\* the image into pieces, so only the last piece carries padding.
Fragment(m, i) ==
    IF i = TotalChunks(m) - 1 THEN <<16 + i, 16, PAD, PAD>>
                              ELSE <<16 + i, 20, 9, 3>>

\* What a chunk message can carry as imageChunk: its piece, or nothing.
ImageChunks(m, i) == {Fragment(m, i), <<>>}

ImageMessage(d, m, i, frag) ==
    [messageType |-> messageType_Image, deviceId |-> d, messageID |-> m,
     varName |-> CameraVar, imageType |-> ImageType, chunk |-> i,
     totalChunks |-> TotalChunks(m), imageChunk |-> frag]

ImageMessages ==
    UNION {{ImageMessage(d, m, i, frag) : frag \in ImageChunks(m, i)} :
              d \in Devices, m \in MsgIds, i \in ChunkNums}

\* ------------------------------------------------------------------- state

VARIABLES
    pc,          \* pc[h]: where handler h is in its code
    loc,         \* loc[h]: the local variables of handler h
    received,    \* messages received so far; also the clock of time.gmtime()
    chunkCache,  \* Datastore kind MqttServiceCache: its entities, in key order
    turdStore,   \* Datastore kind MqttServiceTurds: entities per (device, id)
    blobs,       \* Cloud Storage destination bucket: the objects written
    images,      \* Datastore kind Images: the image references put
    bqRows,      \* BigQuery table: the rows inserted
    deviceData,  \* Datastore kind DeviceData: one entity per deviceId
    committed,   \* history: the entries committed, per device and variable
    staging,     \* Cloud Storage bucket of the uploads: its objects
    destFiles,   \* Cloud Storage destination bucket: the files moved into it
    now,         \* datetime.now() of the upload watcher, in seconds
    uploads,     \* files the uploader has put in the uploads bucket
    delivered,   \* history: non-empty chunks delivered, per id and chunk number
    poisons,     \* history: empty chunks delivered, per id
    completions  \* history: times save_image found all chunks, per id

vars == <<pc, loc, received, chunkCache, turdStore, blobs, images, bqRows,
          deviceData, committed, staging, destFiles, now, uploads,
          delivered, poisons, completions>>

\* The sinks, the history of the chunked images, and what save_image never
\* touches.
sinks == <<blobs, images, bqRows>>
imageHist == <<delivered, poisons, completions>>
uploadVars == <<staging, destFiles, now, uploads>>
notImage == <<deviceData, committed, uploadVars>>

NoLocals == [msg |-> [messageType |-> "none"]]

\* A DeviceData entity that does not exist: DS.get returns None.
NoDeviceData == [exists |-> FALSE, version |-> 0, props |-> [v \in Vars |-> <<>>]]

\* The service starts with no message in hand and, but for DeviceData, with
\* empty stores.
InitService ==
    /\ pc = [h \in Handlers |-> "idle"]
    /\ loc = [h \in Handlers |-> NoLocals]
    /\ received = 0
    /\ chunkCache = <<>>
    /\ turdStore = [id \in Ids |-> 0]
    /\ blobs = <<>>
    /\ images = <<>>
    /\ bqRows = <<>>
    /\ delivered = [id \in Ids |-> [i \in ChunkNums |-> 0]]
    /\ poisons = [id \in Ids |-> 0]
    /\ completions = [id \in Ids |-> 0]
    /\ destFiles = {}
    /\ now = 0
    /\ uploads = 0

Init ==
    /\ InitService
    /\ staging = {}
    /\ deviceData = [d \in Devices |-> NoDeviceData]
    /\ committed = [d \in Devices |-> [v \in Vars |-> <<>>]]

\* ------------------------------------------------- Datastore, chunk cache

\* DS.key( 'MqttServiceCache' ) is an incomplete key: every DS.put allocates
\* a new id, so a put never replaces an entity already stored.
saveImageChunkToDatastore(cache, msg) ==
    Append(cache, [deviceId |-> msg.deviceId, messageId |-> msg.messageID,
                   varName |-> msg.varName, imageType |-> msg.imageType,
                   chunkNum |-> msg.chunk, totalChunks |-> msg.totalChunks,
                   imageChunk |-> msg.imageChunk])

getImageChunksFromDatastore(cache, d, m) ==
    SelectSeq(cache, LAMBDA e : e.deviceId = d /\ e.messageId = m)

deleteImageChunksFromDatastore(cache, d, m) ==
    SelectSeq(cache, LAMBDA e : ~(e.deviceId = d /\ e.messageId = m))

\* DS.key( 'MqttServiceTurds' ) is incomplete too: every saveTurd adds one.
saveTurd(ts, d, m) == [ts EXCEPT ![<<d, m>>] = @ + 1]

\* The messageIds of the turds of a device.
getTurds(ts, d) == {m \in MsgIds : ts[<<d, m>>] > 0}

deleteTurd(ts, d, m) == [ts EXCEPT ![<<d, m>>] = 0]

\* ------------------------------------------------------------- reassembly

\* listOfChunksReceived[ oc[ 'chunkNum' ] ] = True raises IndexError for a
\* chunk number that is not below totalChunks.
IndexErrorIn(chunks, total) ==
    \E k \in 1 .. Len(chunks) : chunks[k].chunkNum >= total

\* haveAllChunks: every number below totalChunks was seen.
HaveAllChunks(chunks, total) ==
    \A c \in 0 .. (total - 1) :
        \E k \in 1 .. Len(chunks) : chunks[k].chunkNum = c

\* sorted( oldChunks, key=chunkNum ): a stable sort.
RECURSIVE InsertByChunkNum(_, _)
InsertByChunkNum(s, e) ==
    IF s = <<>> THEN <<e>>
    ELSE IF Head(s).chunkNum <= e.chunkNum
         THEN <<Head(s)>> \o InsertByChunkNum(Tail(s), e)
         ELSE <<e>> \o s

RECURSIVE SortByChunkNum(_)
SortByChunkNum(s) ==
    IF s = <<>> THEN <<>>
    ELSE InsertByChunkNum(SortByChunkNum(SubSeq(s, 1, Len(s) - 1)), s[Len(s)])

\* b64str: the imageChunk texts of the chunks, one after the other.
RECURSIVE JoinChunks(_)
JoinChunks(s) ==
    IF s = <<>> THEN <<>> ELSE Head(s).imageChunk \o JoinChunks(Tail(s))

\* saveFileInCloudStorage names the object after the device, the variable
\* and the time in seconds; the public URL is the bucket and that name.
PublicURL(d, var, t, type) == <<d, var, t, type>>

\* --------------------------------------------------------------- save_image

\* The handler returns (normally, or by the except clause of its function).
Return(h) ==
    /\ pc' = [pc EXCEPT ![h] = "idle"]
    /\ loc' = [loc EXCEPT ![h] = NoLocals]

Goto(h, label) == pc' = [pc EXCEPT ![h] = label]

\* callback -> save_data -> save_image, to the test of the empty imageChunk.
ReceiveImage(h, m) ==
    /\ pc[h] = "idle"
    /\ received < MaxMsgs
    /\ received' = received + 1
    /\ loc' = [loc EXCEPT ![h] = [msg |-> m, turds |-> {}, oldChunks |-> <<>>,
                                  publicURL |-> <<>>, hadChunks |-> FALSE]]
    /\ Goto(h, IF Len(m.imageChunk) = 0 THEN "poisonDelete" ELSE "getTurds")
    /\ IF Len(m.imageChunk) = 0
       THEN /\ poisons' = [poisons EXCEPT ![<<m.deviceId, m.messageID>>] = @ + 1]
            /\ UNCHANGED delivered
       ELSE /\ delivered' = [delivered EXCEPT
                                ![<<m.deviceId, m.messageID>>][m.chunk] = @ + 1]
            /\ UNCHANGED poisons
    /\ UNCHANGED <<chunkCache, turdStore, sinks, completions, notImage>>

\* Empty imageChunk: deleteImageChunksFromDatastore.  hadChunks is history:
\* whether the id had stored chunks when the deletion ran.
PoisonDelete(h) ==
    /\ pc[h] = "poisonDelete"
    /\ chunkCache' = deleteImageChunksFromDatastore(chunkCache,
                         loc[h].msg.deviceId, loc[h].msg.messageID)
    /\ loc' = [loc EXCEPT ![h].hadChunks =
                   getImageChunksFromDatastore(chunkCache, loc[h].msg.deviceId,
                                               loc[h].msg.messageID) # <<>>]
    /\ Goto(h, "poisonTurd")
    /\ UNCHANGED <<received, turdStore, blobs, images, bqRows, imageHist, notImage>>

\* Empty imageChunk: saveTurd, return.
PoisonSaveTurd(h) ==
    /\ pc[h] = "poisonTurd"
    /\ turdStore' = saveTurd(turdStore, loc[h].msg.deviceId, loc[h].msg.messageID)
    /\ Return(h)
    /\ UNCHANGED <<received, chunkCache, blobs, images, bqRows, imageHist, notImage>>

\* turds = getTurds( DS, deviceId )
GetTurds(h) ==
    /\ pc[h] = "getTurds"
    /\ loc' = [loc EXCEPT ![h].turds = getTurds(turdStore, loc[h].msg.deviceId)]
    /\ Goto(h, "reapTurds")
    /\ UNCHANGED <<received, chunkCache, turdStore, sinks, imageHist, notImage>>

\* Mutant of BadMessageIds: the turd of the message's own id is reaped too.
BadMessageIds_All(h) == loc[h].turds

\* The turds read whose messageId is not that of this message.
BadMessageIds(h) == loc[h].turds \ {loc[h].msg.messageID}

\* for badImage in turds: delete its chunks and the turd.
ReapTurds(h) ==
    /\ pc[h] = "reapTurds"
    /\ chunkCache' = SelectSeq(chunkCache, LAMBDA e :
                         ~(e.deviceId = loc[h].msg.deviceId
                           /\ e.messageId \in BadMessageIds(h)))
    /\ turdStore' = [id \in Ids |->
                        IF id[1] = loc[h].msg.deviceId /\ id[2] \in BadMessageIds(h)
                        THEN 0 ELSE turdStore[id]]
    /\ Goto(h, "saveChunk")
    /\ UNCHANGED <<loc, received, blobs, images, bqRows, imageHist, notImage>>

\* saveImageChunkToDatastore
SaveChunk(h) ==
    /\ pc[h] = "saveChunk"
    /\ chunkCache' = saveImageChunkToDatastore(chunkCache, loc[h].msg)
    /\ Goto(h, "getChunks")
    /\ UNCHANGED <<loc, received, turdStore, blobs, images, bqRows, imageHist, notImage>>

\* oldChunks = getImageChunksFromDatastore, then the test of haveAllChunks.
GetChunks(h) ==
    /\ pc[h] = "getChunks"
    /\ LET old == getImageChunksFromDatastore(chunkCache,
                      loc[h].msg.deviceId, loc[h].msg.messageID)
           id == <<loc[h].msg.deviceId, loc[h].msg.messageID>>
       IN  IF IndexErrorIn(old, loc[h].msg.totalChunks)
              \/ ~HaveAllChunks(old, loc[h].msg.totalChunks)
           THEN /\ Return(h)
                /\ UNCHANGED completions
           ELSE /\ loc' = [loc EXCEPT ![h].oldChunks = old]
                /\ Goto(h, "deleteChunks")
                /\ completions' = [completions EXCEPT ![id] = @ + 1]
    /\ UNCHANGED <<received, chunkCache, turdStore, sinks, delivered, poisons, notImage>>

\* All chunks are here: delete the chunks and the turd of this id.
DeleteChunks(h) ==
    /\ pc[h] = "deleteChunks"
    /\ chunkCache' = deleteImageChunksFromDatastore(chunkCache,
                         loc[h].msg.deviceId, loc[h].msg.messageID)
    /\ turdStore' = deleteTurd(turdStore, loc[h].msg.deviceId, loc[h].msg.messageID)
    /\ Goto(h, "saveFile")
    /\ UNCHANGED <<loc, received, blobs, images, bqRows, imageHist, notImage>>

\* Mutant of ImageBytes: the chunks are joined in the order of the query.
ImageBytes_Unsorted(chunks) == b64decode(JoinChunks(chunks))

\* The image bytes save_image makes of the chunks it read.
ImageBytes(chunks) == b64decode(JoinChunks(SortByChunkNum(chunks)))

\* Sort, join, decode, saveFileInCloudStorage.  b64decode raises on a text
\* that is no base64; upload_from_string raises when the store fails.
SaveFile(h) ==
    /\ pc[h] = "saveFile"
    /\ LET img == ImageBytes(loc[h].oldChunks)
           url == PublicURL(loc[h].msg.deviceId, loc[h].msg.varName, received,
                            loc[h].msg.imageType)
       IN  \/ /\ img.ok
              /\ blobs' = Append(blobs, [deviceId |-> loc[h].msg.deviceId,
                                         messageId |-> loc[h].msg.messageID,
                                         bytes |-> img.bytes, url |-> url])
              /\ loc' = [loc EXCEPT ![h].publicURL = url]
              /\ Goto(h, "saveImageURL")
           \/ /\ Return(h)
              /\ UNCHANGED blobs
    /\ UNCHANGED <<received, chunkCache, turdStore, images, bqRows, imageHist, notImage>>

\* saveImageURLtoDatastore
SaveImageURL(h) ==
    /\ pc[h] = "saveImageURL"
    /\ images' = Append(images, [device_uuid |-> loc[h].msg.deviceId,
                                 URL |-> loc[h].publicURL,
                                 camera_name |-> loc[h].msg.varName])
    /\ Goto(h, "bqInsertImage")
    /\ UNCHANGED <<loc, received, chunkCache, turdStore, blobs, bqRows, imageHist, notImage>>

\* The id column of a row: <KEY>~<valName>~<created UTC TS>~<deviceId>
RowId(idKey, var, t, d) == <<idKey, var, t, d>>

\* bq_data_insert of the image URL as an env. var; insert_rows can raise,
\* and bq_data_insert then returns False.
BqInsertImage(h) ==
    /\ pc[h] = "bqInsertImage"
    /\ \/ bqRows' = Append(bqRows,
                       [id |-> RowId("Env", loc[h].msg.varName, received,
                                     loc[h].msg.deviceId),
                        values |-> loc[h].publicURL])
       \/ UNCHANGED bqRows
    /\ Return(h)
    /\ UNCHANGED <<received, chunkCache, turdStore, blobs, images, imageHist, notImage>>

NextImage ==
    \E h \in Handlers :
        \/ \E m \in ImageMessages : ReceiveImage(h, m)
        \/ PoisonDelete(h)
        \/ PoisonSaveTurd(h)
        \/ GetTurds(h)
        \/ ReapTurds(h)
        \/ SaveChunk(h)
        \/ GetChunks(h)
        \/ DeleteChunks(h)
        \/ SaveFile(h)
        \/ SaveImageURL(h)
        \/ BqInsertImage(h)

SpecImage == Init /\ [][NextImage]_vars

\* One message at a time: a message is received when no handler is busy.
AllIdle == \A h \in Handlers : pc[h] = "idle"

NextImageSeq ==
    \E h \in Handlers :
        \/ \E m \in ImageMessages : AllIdle /\ ReceiveImage(h, m)
        \/ PoisonDelete(h)
        \/ PoisonSaveTurd(h)
        \/ GetTurds(h)
        \/ ReapTurds(h)
        \/ SaveChunk(h)
        \/ GetChunks(h)
        \/ DeleteChunks(h)
        \/ SaveFile(h)
        \/ SaveImageURL(h)
        \/ BqInsertImage(h)

SpecImageSeq == Init /\ [][NextImageSeq]_vars

\* --------------------------- save_image, with records of earlier traffic

\* The ids in the order of their keys.
IdOrder == <<<<"D1", "M1">>, <<"D1", "M2">>, <<"D2", "M1">>, <<"D2", "M2">>>>

\* The chunk records of the ids of S among the first n ids, each of which
\* had a poison chunk and then its chunk 0: the turd and the chunk record
\* are both stored.
RECURSIVE LeftChunks(_, _)
LeftChunks(S, n) ==
    IF n = 0 THEN <<>>
    ELSE LET id == IdOrder[n]
             before == LeftChunks(S, n - 1)
         IN  IF id \in S
             THEN saveImageChunkToDatastore(before,
                      ImageMessage(id[1], id[2], 0, Fragment(id[2], 0)))
             ELSE before

\* The service takes up messages with turds and chunk records in the stores,
\* of any ids of the sending device and of none or all ids of another device.
InitReap ==
    /\ pc = [h \in Handlers |-> "idle"]
    /\ loc = [h \in Handlers |-> NoLocals]
    /\ received = 0
    /\ \E S \in {T \in SUBSET Ids :
                     \A m \in MsgIds : <<"D2", m>> \in T <=> <<"D2", "M1">> \in T} :
           /\ chunkCache = LeftChunks(S, Len(IdOrder))
           /\ turdStore = [id \in Ids |-> IF id \in S THEN 1 ELSE 0]
           /\ poisons = [id \in Ids |-> IF id \in S THEN 1 ELSE 0]
           /\ delivered = [id \in Ids |-> [i \in ChunkNums |->
                               IF id \in S /\ i = 0 THEN 1 ELSE 0]]
    /\ completions = [id \in Ids |-> 0]
    /\ blobs = <<>>
    /\ images = <<>>
    /\ bqRows = <<>>
    /\ destFiles = {}
    /\ now = 0
    /\ uploads = 0
    /\ staging = {}
    /\ deviceData = [d \in Devices |-> NoDeviceData]
    /\ committed = [d \in Devices |-> [v \in Vars |-> <<>>]]

SpecReap == InitReap /\ [][NextImageSeq]_vars

\* ------------------------------------------------------ claims, reassembly

\* The blob writes made for an id.
BlobsOf(id) ==
    SelectSeq(blobs, LAMBDA b : b.deviceId = id[1] /\ b.messageId = id[2])

ChunksOf(id) == getImageChunksFromDatastore(chunkCache, id[1], id[2])

\* The base64 text of image m with its pieces in ascending chunk number.
RECURSIVE InOrderText(_, _)
InOrderText(m, n) ==
    IF n = 0 THEN <<>> ELSE InOrderText(m, n - 1) \o Fragment(m, n - 1)

ExpectedBytes(m) == b64decode(InOrderText(m, TotalChunks(m))).bytes

\* The chunks 0..N-1 of the id were each delivered at most once, and nothing
\* else was delivered for the id.
DeliveredOnce(id) ==
    /\ poisons[id] = 0
    /\ \A i \in ChunkNums :
           delivered[id][i] <= (IF i < TotalChunks(id[2]) THEN 1 ELSE 0)

\* C1: when the chunks 0..N-1 of an id are each delivered once, in any order
\* and by any handlers, every payload save_image writes for the id is the
\* decoding of the fragments joined in ascending chunk number.
C1_OrderIndependent ==
    \A id \in Ids :
        DeliveredOnce(id) =>
            \A k \in 1 .. Len(BlobsOf(id)) :
                BlobsOf(id)[k].bytes = ExpectedBytes(id[2])

\* C1 witness: the three chunks of M1 were read in descending chunk number
\* and the blob was written.
C1_Witness ==
    \E h \in Handlers :
        /\ pc[h] = "saveImageURL"
        /\ loc[h].msg.messageID = "M1"
        /\ DeliveredOnce(<<loc[h].msg.deviceId, "M1">>)
        /\ Len(loc[h].oldChunks) = MaxChunks
        /\ \A k \in 1 .. (MaxChunks - 1) :
               loc[h].oldChunks[k].chunkNum > loc[h].oldChunks[k + 1].chunkNum
        /\ BlobsOf(<<loc[h].msg.deviceId, "M1">>) # <<>>

\* Every delivery for the id was a non-empty chunk with a number in range
\* (a number may have been delivered more than once).
OnlyValidChunks(id) ==
    /\ poisons[id] = 0
    /\ \A i \in ChunkNums : i >= TotalChunks(id[2]) => delivered[id][i] = 0

\* C2 (as claimed): a chunk delivered again replaces the stored record, so no
\* two stored records share (deviceId, messageId, chunkNum) and the payload
\* written is that of a single delivery of each chunk.
C2_DuplicateOverwrites ==
    /\ \A j, k \in 1 .. Len(chunkCache) :
           (/\ chunkCache[j].deviceId = chunkCache[k].deviceId
            /\ chunkCache[j].messageId = chunkCache[k].messageId
            /\ chunkCache[j].chunkNum = chunkCache[k].chunkNum) => j = k
    /\ \A id \in Ids :
           OnlyValidChunks(id) =>
               \A k \in 1 .. Len(BlobsOf(id)) :
                   BlobsOf(id)[k].bytes = ExpectedBytes(id[2])

\* C3 (as claimed): for every id, save_image finds the set complete at most
\* once and writes at most one blob.
C3_CompleteAtMostOnce ==
    \A id \in Ids : completions[id] <= 1 /\ Len(BlobsOf(id)) <= 1

\* C4 (as claimed): when no handling cycle is under way, no id has both a
\* turd marker and stored chunk records.
C4_TurdExcludesChunks ==
    AllIdle => \A id \in Ids : ~(turdStore[id] > 0 /\ ChunksOf(id) # <<>>)

\* C5 (as claimed): the handling of an empty chunk for an id that had stored
\* chunks ends with no chunk record and exactly one turd marker for the id,
\* and no step of it writes a blob, an image reference or a warehouse row.
C5_PoisonAbandonsCleanly ==
    [][\A h \in Handlers :
          /\ (pc[h] \in {"poisonDelete", "poisonTurd"} /\ pc'[h] # pc[h]) =>
                 (blobs' = blobs /\ images' = images /\ bqRows' = bqRows)
          /\ (pc[h] = "poisonTurd" /\ pc'[h] = "idle" /\ loc[h].hadChunks) =>
                 LET id == <<loc[h].msg.deviceId, loc[h].msg.messageID>>
                 IN  /\ getImageChunksFromDatastore(chunkCache', id[1], id[2]) = <<>>
                     /\ turdStore'[id] = 1]_vars

\* The chunks 0..N-1 of the id were each delivered once, nothing else was
\* delivered for the id, and every message has been handled to its end.
AllDeliveredOnce(id) ==
    /\ AllIdle
    /\ poisons[id] = 0
    /\ \A i \in ChunkNums :
           delivered[id][i] = (IF i < TotalChunks(id[2]) THEN 1 ELSE 0)

\* The image references and the warehouse rows that carry the URL of a blob
\* written for the id.
BlobURLsOf(id) == {BlobsOf(id)[k].url : k \in 1 .. Len(BlobsOf(id))}
ImageRefsFor(id) == {i \in DOMAIN images : images[i].URL \in BlobURLsOf(id)}
ImageRowsFor(id) == {i \in DOMAIN bqRows : bqRows[i].values \in BlobURLsOf(id)}

\* No store call failed for the id: every completion wrote its blob, every
\* blob got its image reference and its warehouse row.
NoWriteFailed(id) ==
    /\ Len(BlobsOf(id)) = completions[id]
    /\ Cardinality(ImageRefsFor(id)) >= Len(BlobsOf(id))
    /\ Cardinality(ImageRowsFor(id)) >= Len(BlobsOf(id))

\* C11 (as claimed, for the behaviours in which no store call failed): after
\* the chunks 0..N-1 of an id have each been delivered once, in any order,
\* exactly one blob has been written, exactly one image reference and one
\* warehouse row carry its URL, and no chunk record and no turd marker of the
\* id remains.
C11_OneImagePerId ==
    \A id \in Ids :
        (AllDeliveredOnce(id) /\ NoWriteFailed(id)) =>
            /\ Len(BlobsOf(id)) = 1
            /\ Cardinality(ImageRefsFor(id)) = 1
            /\ Cardinality(ImageRowsFor(id)) = 1
            /\ ChunksOf(id) = <<>>
            /\ turdStore[id] = 0

\* ------------------------------------------------------ save_data_to_Device

\* The values text of an EnvVar or CommandReply message, as the structure
\* ast.literal_eval reads from it.
ValuesOf(v) == [values |-> <<[name |-> v, type |-> "str", value |-> "on"]>>]

_string_to_value(string) == string.values[1].value
_string_to_name(string) == string.values[1].name

\* The status variable comes in command replies, the others in EnvVar
\* messages.
DataMessage(d, v) ==
    [messageType |-> IF v = "status" THEN messageType_CommandReply
                                     ELSE messageType_EnvVar,
     deviceId |-> d, var |-> v, values |-> ValuesOf(v)]

DataMessages == {DataMessage(d, v) : d \in Devices, v \in Vars}

\* A decoded message is a record; its keys are the fields of the record.
validDictKey(d, key) == key \in DOMAIN d

\* Mutant of validateMessageType: a type that is missing or unknown is taken
\* for EnvVar.
validateMessageType_Lax(valueDict) ==
    IF ~validDictKey(valueDict, "messageType") THEN messageType_EnvVar
    ELSE IF valueDict.messageType \in {messageType_CommandReply, messageType_Image,
                                       messageType_ImageUpload}
         THEN valueDict.messageType
         ELSE messageType_EnvVar

\* returns the messageType key if valid, else None.
validateMessageType(valueDict) ==
    IF ~validDictKey(valueDict, "messageType") THEN "None"
    ELSE IF valueDict.messageType \in {messageType_EnvVar, messageType_CommandReply,
                                       messageType_Image, messageType_ImageUpload}
         THEN valueDict.messageType
         ELSE "None"

\* The rows makeBQEnvVarRowList appends to rowsList, at time t: none when
\* the var or the values key is missing.
makeBQEnvVarRowList(valueDict, deviceId, idKey, t) ==
    IF ~validDictKey(valueDict, "var") \/ ~validDictKey(valueDict, "values")
    THEN <<>>
    ELSE <<[id |-> RowId(idKey, valueDict.var, t, deviceId),
            values |-> valueDict.values]>>

\* makeBQRowList: what it returns, and the rowList it leaves.
makeBQRowList(valueDict, deviceId, t) ==
    LET messageType == validateMessageType(valueDict)
    IN  IF messageType \in {messageType_EnvVar, messageType_Image}
        THEN [ret |-> TRUE,
              rowList |-> makeBQEnvVarRowList(valueDict, deviceId, "Env", t)]
        ELSE IF messageType = messageType_CommandReply
        THEN [ret |-> TRUE,
              rowList |-> makeBQEnvVarRowList(valueDict, deviceId, "Cmd", t)]
        ELSE [ret |-> FALSE, rowList |-> <<>>]

\* The rowList bq_data_insert makes for the message handler h holds.
RowListOf(h) == makeBQRowList(loc[h].msg, loc[h].msg.deviceId, received)

\* if not dd: DS.get returned None, or an entity with no property (an empty
\* Entity is false in Python).
NotDD(dd) == ~dd.exists \/ \A v \in Vars : dd.props[v] = <<>>

\* Mutant of CapList: the bound is off by one.
RECURSIVE CapList_OffByOne(_)
CapList_OffByOne(valuesList) ==
    IF Len(valuesList) > DS_env_vars_MAX_size + 1
    THEN CapList_OffByOne(SubSeq(valuesList, 1, Len(valuesList) - 1))
    ELSE valuesList

\* while len( valuesList ) > DS_env_vars_MAX_size: valuesList.pop()
RECURSIVE CapList(_)
CapList(valuesList) ==
    IF Len(valuesList) > DS_env_vars_MAX_size
    THEN CapList(SubSeq(valuesList, 1, Len(valuesList) - 1))
    ELSE valuesList

\* Mutant of InsertValue: the value is put at the end of the list.
InsertValue_AtEnd(valuesList, valueToSave) == Append(valuesList, valueToSave)

\* valuesList.insert( 0, valueToSave )
InsertValue(valuesList, valueToSave) == <<valueToSave>> \o valuesList

\* The local variables of save_data_to_Device before the first DS.get, for
\* message m at time t.
DataLocals(m, t) ==
    [msg |-> m,
     valueToSave |-> [timestamp |-> t,
                      name |-> _string_to_name(m.values),
                      value |-> _string_to_value(m.values)],
     dd |-> NoDeviceData, attempts |-> 0,
     transactionWorked |-> FALSE]

\* callback -> save_data -> save_data_to_Device, to the first DS.get.  At
\* most max messages are received.
ReceiveData(h, m, max) ==
    /\ pc[h] = "idle"
    /\ received < max
    /\ received' = received + 1
    /\ loc' = [loc EXCEPT ![h] = DataLocals(m, received + 1)]
    /\ Goto(h, "getDevice")
    /\ UNCHANGED <<chunkCache, turdStore, sinks, imageHist, notImage>>

\* dd = DS.get( ddkey ); if not dd: ...
GetDevice(h) ==
    /\ pc[h] = "getDevice"
    /\ Goto(h, IF NotDD(deviceData[loc[h].msg.deviceId]) THEN "createDevice"
                                                          ELSE "txnGet")
    /\ UNCHANGED <<loc, received, chunkCache, turdStore, sinks, imageHist,
                   notImage>>

\* DS.put( dd ) of an empty entity: a put replaces the entity stored.
CreateDevice(h) ==
    /\ pc[h] = "createDevice"
    /\ deviceData' = [deviceData EXCEPT ![loc[h].msg.deviceId] =
                         [exists |-> TRUE, version |-> @.version + 1,
                          props |-> [v \in Vars |-> <<>>]]]
    /\ Goto(h, "txnGet")
    /\ UNCHANGED <<loc, received, chunkCache, turdStore, sinks, imageHist,
                   committed, uploadVars>>

\* with DS.transaction(): dd = DS.get( ddkey ), one more attempt.
TxnGet(h) ==
    /\ pc[h] = "txnGet"
    /\ loc' = [loc EXCEPT ![h].dd = deviceData[loc[h].msg.deviceId],
                          ![h].attempts = @ + 1]
    /\ Goto(h, "txnCommit")
    /\ UNCHANGED <<received, chunkCache, turdStore, sinks, imageHist, notImage>>

\* The entity the transaction writes: the one it read, with the value put
\* in front of the list of the variable and the list capped.
UpdatedDD(dd, var, valueToSave) ==
    [dd EXCEPT !.props[var] = CapList(InsertValue(@, valueToSave)),
               !.version = @ + 1]

\* The transaction commits: nothing wrote the entity since it was read.
TxnCommit(h) ==
    /\ pc[h] = "txnCommit"
    /\ deviceData[loc[h].msg.deviceId].version = loc[h].dd.version
    /\ deviceData' = [deviceData EXCEPT ![loc[h].msg.deviceId] =
                         UpdatedDD(loc[h].dd, loc[h].msg.var, loc[h].valueToSave)]
    /\ committed' = [committed EXCEPT ![loc[h].msg.deviceId][loc[h].msg.var] =
                        Append(@, loc[h].valueToSave)]
    /\ loc' = [loc EXCEPT ![h].transactionWorked = TRUE]
    /\ Goto(h, "bqInsertData")
    /\ UNCHANGED <<received, chunkCache, turdStore, sinks, imageHist, uploadVars>>

\* Mutant of FailedAttempt: one more attempt is made.
FailedAttempt_OneMore(h) ==
    /\ Goto(h, IF loc[h].attempts <= TransactionAttempts THEN "txnGet"
                                                          ELSE "bqInsertData")
    /\ UNCHANGED <<loc, received, chunkCache, turdStore, sinks, imageHist,
                   notImage>>

\* An attempt failed: the next attempt, or after the last one the error is
\* logged and save_data_to_Device returns.
FailedAttempt(h) ==
    /\ Goto(h, IF loc[h].attempts < TransactionAttempts THEN "txnGet"
                                                         ELSE "bqInsertData")
    /\ UNCHANGED <<loc, received, chunkCache, turdStore, sinks, imageHist,
                   notImage>>

\* The commit raises: the entity was written since the transaction read it.
TxnConflict(h) ==
    /\ pc[h] = "txnCommit"
    /\ deviceData[loc[h].msg.deviceId].version # loc[h].dd.version
    /\ FailedAttempt(h)

\* The transaction raises for another reason: the store fails.
TxnError(h) ==
    /\ pc[h] = "txnCommit"
    /\ deviceData[loc[h].msg.deviceId].version = loc[h].dd.version
    /\ FailedAttempt(h)

\* save_data: bq_data_insert after save_data_to_Device returned; the rows
\* of rowList are inserted.
BqInsertData(h) ==
    /\ pc[h] = "bqInsertData"
    /\ RowListOf(h).ret
    /\ RowListOf(h).rowList # <<>>
    /\ bqRows' = bqRows \o RowListOf(h).rowList
    /\ Return(h)
    /\ UNCHANGED <<received, chunkCache, turdStore, blobs, images, imageHist,
                   notImage>>

\* insert_rows raises, and bq_data_insert returns False; or insert_rows
\* returns the errors of the rows, and bq_data_insert returns True.  There
\* is no other attempt.
BqInsertDataFails(h) ==
    /\ pc[h] = "bqInsertData"
    /\ RowListOf(h).ret
    /\ RowListOf(h).rowList # <<>>
    /\ Return(h)
    /\ UNCHANGED <<received, chunkCache, turdStore, sinks, imageHist, notImage>>

NextHistory ==
    \E h \in Handlers :
        \/ \E m \in DataMessages : ReceiveData(h, m, MaxMsgs)
        \/ GetDevice(h)
        \/ CreateDevice(h)
        \/ TxnGet(h)
        \/ TxnCommit(h)
        \/ TxnConflict(h)
        \/ BqInsertData(h)
        \/ BqInsertDataFails(h)

\* The state after PreFilled updates of temp of D1, made one after the other
\* before the behaviour starts: their timestamps are in the past.
PreFilled == DS_env_vars_MAX_size - 1

PastValue(t) == [timestamp |-> t, name |-> "temp", value |-> "on"]

FilledDeviceData ==
    [exists |-> TRUE, version |-> PreFilled + 1,
     props |-> [v \in Vars |-> IF v = "temp"
                               THEN [i \in 1 .. PreFilled |-> PastValue(0 - i)]
                               ELSE <<>>]]

FilledCommitted ==
    [v \in Vars |-> IF v = "temp"
                    THEN [j \in 1 .. PreFilled |-> PastValue(j - PreFilled - 1)]
                    ELSE <<>>]

\* The history cache is empty, or D1 has had PreFilled updates of temp.
InitHistory ==
    /\ InitService
    /\ staging = {}
    /\ \E filled \in BOOLEAN :
           /\ deviceData = [d \in Devices |->
                               IF filled /\ d = "D1" THEN FilledDeviceData
                                                     ELSE NoDeviceData]
           /\ committed = [d \in Devices |->
                              IF filled /\ d = "D1" THEN FilledCommitted
                                                    ELSE [v \in Vars |-> <<>>]]

SpecHistory == InitHistory /\ [][NextHistory]_vars

\* Updates of one variable of one device, one after the other, no store
\* failing.
NextHistorySeq ==
    \E h \in Handlers :
        \/ AllIdle /\ ReceiveData(h, DataMessage("D1", "temp"), MaxSeqMsgs)
        \/ GetDevice(h)
        \/ CreateDevice(h)
        \/ TxnGet(h)
        \/ TxnCommit(h)
        \/ BqInsertData(h)

SpecHistorySeq == Init /\ [][NextHistorySeq]_vars

\* Updates one after the other while the store fails: a transaction can
\* raise with no contention, up to the last attempt.
NextHistoryRetry ==
    \E h \in Handlers :
        \/ \E m \in DataMessages : AllIdle /\ ReceiveData(h, m, MaxMsgs)
        \/ GetDevice(h)
        \/ CreateDevice(h)
        \/ TxnGet(h)
        \/ TxnCommit(h)
        \/ TxnError(h)
        \/ BqInsertData(h)
        \/ BqInsertDataFails(h)

SpecHistoryRetry == InitHistory /\ [][NextHistoryRetry]_vars

\* ----------------------------------------------------------------- callback

\* msg.data: bytes that are no JSON text, the JSON text of a number, or the
\* JSON text of an object.  The deviceId attribute of the message is carried
\* with the object.
GarbageData == [kind |-> "garbage"]
ScalarData == [kind |-> "scalar"]
ObjectData(obj) == [kind |-> "object", obj |-> obj]

\* Objects with no messageType, with an unknown one, and EnvVar and
\* CommandReply objects that lack the var or the values key.
NoTypeObject(d) == [deviceId |-> d, var |-> "temp", values |-> ValuesOf("temp")]
BadTypeObject(d) ==
    [messageType |-> "Bogus", deviceId |-> d, var |-> "temp",
     values |-> ValuesOf("temp")]
NoVarObject(d) ==
    [messageType |-> messageType_EnvVar, deviceId |-> d,
     values |-> ValuesOf("temp")]
NoValuesObject(d) ==
    [messageType |-> messageType_CommandReply, deviceId |-> d, var |-> "status"]

Payloads ==
    {GarbageData, ScalarData}
    \cup {ObjectData(m) : m \in DataMessages}
    \cup UNION {{ObjectData(NoTypeObject(d)), ObjectData(BadTypeObject(d)),
                 ObjectData(NoVarObject(d)), ObjectData(NoValuesObject(d))} :
                d \in Devices}

\* Mutant of TryFunctions: the callback has no try.
TryFunctions_NoCallback ==
    {"save_image", "save_uploaded_image", "save_data_to_Device", "bq_data_insert"}

\* The functions whose body is one try ... except Exception.
TryFunctions ==
    {"callback", "save_image", "save_uploaded_image", "save_data_to_Device",
     "bq_data_insert"}

\* The functions being run, outermost first, when a handler is at a label.
CallStack(label) ==
    IF label \in {"ack", "decode"} THEN <<"callback">>
    ELSE IF label = "saveData" THEN <<"callback", "save_data">>
    ELSE IF label \in {"getDevice", "createDevice", "txnGet", "txnCommit"}
    THEN <<"callback", "save_data", "save_data_to_Device">>
    ELSE IF label \in {"bqInsertData", "insertRows"}
    THEN <<"callback", "save_data", "bq_data_insert">>
    ELSE <<>>

\* The innermost function of the stack that catches an exception.
RECURSIVE Catcher(_)
Catcher(stack) ==
    IF stack = <<>> THEN "none"
    ELSE IF stack[Len(stack)] \in TryFunctions THEN stack[Len(stack)]
    ELSE Catcher(SubSeq(stack, 1, Len(stack) - 1))

\* Where the handler is after the except clause of function f: after
\* save_data_to_Device, save_data goes on to bq_data_insert; after
\* bq_data_insert and after callback, the callback has returned.  An
\* exception nothing catches leaves the callback.
AfterCatch(f) ==
    IF f = "save_data_to_Device" THEN "bqInsertData"
    ELSE IF f \in {"bq_data_insert", "callback"} THEN "idle"
    ELSE "escaped"

\* The statement handler h is at raises.
Throw(h) ==
    LET to == AfterCatch(Catcher(CallStack(pc[h])))
    IN  IF to = "idle" THEN Return(h) ELSE Goto(h, to) /\ UNCHANGED loc

\* Mutant of FirstStep: the callback starts with the decoding.
FirstStep_Decode == "decode"

\* The first statement of the callback: msg.ack().
FirstStep == "ack"

\* What the steps of the callback leave alone.
notCallback == <<chunkCache, turdStore, sinks, imageHist, notImage>>

\* Pub/Sub calls callback(msg) on a thread of its pool.
Deliver(h, data) ==
    /\ pc[h] = "idle"
    /\ received < MaxDeliveries
    /\ received' = received + 1
    /\ loc' = [loc EXCEPT ![h] = [msg |-> NoLocals.msg, data |-> data,
                                  acked |-> FALSE]]
    /\ Goto(h, FirstStep)
    /\ UNCHANGED notCallback

\* msg.ack()
Ack(h) ==
    /\ pc[h] = "ack"
    /\ loc' = [loc EXCEPT ![h].acked = TRUE]
    /\ Goto(h, "decode")
    /\ UNCHANGED <<received, notCallback>>

\* pydict = json.loads( msg.data.decode('utf-8') ): raises on bytes that are
\* no JSON text.
Decode(h) ==
    /\ pc[h] = "decode"
    /\ IF loc[h].data.kind = "garbage"
       THEN Throw(h)
       ELSE Goto(h, "saveData") /\ UNCHANGED loc
    /\ UNCHANGED <<received, notCallback>>

\* save_data_to_Device goes as far as the first DS.get for message m.
DeviceSaveApplies(m) ==
    /\ validateMessageType(m) \in {messageType_EnvVar, messageType_CommandReply}
    /\ validDictKey(m, "var")
    /\ validDictKey(m, "values")

\* utils.save_data: validateMessageType raises TypeError on a pydict that is
\* no container (save_data has no try).  A message that is no Image and no
\* ImageUpload goes to save_data_to_Device, which returns at once unless the
\* type is EnvVar or CommandReply and the keys are there; bq_data_insert
\* comes next.  (Images and upload notices: ReceiveImage, ReceiveUpload.)
SaveData(h) ==
    /\ pc[h] = "saveData"
    /\ IF loc[h].data.kind = "scalar"
       THEN Throw(h)
       ELSE LET m == loc[h].data.obj
            IN  /\ validateMessageType(m) \notin {messageType_Image,
                                                  messageType_ImageUpload}
                /\ IF DeviceSaveApplies(m)
                   THEN /\ loc' = [loc EXCEPT ![h] = DataLocals(m, received)]
                        /\ Goto(h, "getDevice")
                   ELSE /\ loc' = [loc EXCEPT ![h] = [msg |-> m]]
                        /\ Goto(h, "bqInsertData")
    /\ UNCHANGED <<received, notCallback>>

\* DS.get or DS.put raises outside the transaction: the except clause of
\* save_data_to_Device.
DeviceStoreRaises(h) ==
    /\ pc[h] \in {"getDevice", "createDevice"}
    /\ Throw(h)
    /\ UNCHANGED <<received, notCallback>>

\* makeBQRowList returns False: bq_data_insert returns False.
BqNoRowList(h) ==
    /\ pc[h] = "bqInsertData"
    /\ ~RowListOf(h).ret
    /\ Return(h)
    /\ UNCHANGED <<received, notCallback>>

\* makeBQRowList returns True although makeBQEnvVarRowList appended no row:
\* bq_data_insert goes on to BQ.get_table and BQ.insert_rows.
BqEmptyRowList(h) ==
    /\ pc[h] = "bqInsertData"
    /\ RowListOf(h).ret
    /\ RowListOf(h).rowList = <<>>
    /\ Goto(h, "insertRows")
    /\ UNCHANGED <<loc, received, notCallback>>

\* BQ.insert_rows( table, [] ): no row is inserted, whether the call returns
\* (bq_data_insert returns True) or raises (it returns False).
InsertEmptyRows(h) ==
    /\ pc[h] = "insertRows"
    /\ Return(h)
    /\ UNCHANGED <<received, notCallback>>

NextCallback ==
    \E h \in Handlers :
        \/ \E data \in Payloads : Deliver(h, data)
        \/ Ack(h)
        \/ Decode(h)
        \/ SaveData(h)
        \/ DeviceStoreRaises(h)
        \/ GetDevice(h)
        \/ CreateDevice(h)
        \/ TxnGet(h)
        \/ TxnCommit(h)
        \/ TxnConflict(h)
        \/ BqInsertData(h)
        \/ BqInsertDataFails(h)
        \/ BqNoRowList(h)
        \/ BqEmptyRowList(h)
        \/ InsertEmptyRows(h)

SpecCallback == Init /\ [][NextCallback]_vars

\* ----------------------------------------------------- claims, history cache

\* The stored list of a variable of a device.
ValuesList(d, v) == deviceData[d].props[v]

Min(a, b) == IF a <= b THEN a ELSE b

\* The last k entries of a sequence, the last one first.
LastReversed(s, k) == [i \in 1 .. k |-> s[Len(s) - i + 1]]

\* C6: in every state every list of the history cache has at most
\* DS_env_vars_MAX_size (100) entries, two handlers updating at once.
C6_HistoryBounded ==
    \A d \in Devices : \A v \in Vars :
        Len(ValuesList(d, v)) <= DS_env_vars_MAX_size

\* C6 witness: an update was committed to a full list, which evicted its
\* oldest entry: more than 100 entries were committed and 100 are stored.
C6_Witness ==
    \E d \in Devices : \E v \in Vars :
        /\ Len(committed[d][v]) > DS_env_vars_MAX_size
        /\ Len(ValuesList(d, v)) = DS_env_vars_MAX_size
        /\ AllIdle

\* C7: after n updates made one after the other from an absent list, the
\* stored list is the last min(n, 100) entries committed, the newest first.
C7_LastHundredNewestFirst ==
    \A d \in Devices : \A v \in Vars :
        ValuesList(d, v) =
            LastReversed(committed[d][v],
                         Min(Len(committed[d][v]), DS_env_vars_MAX_size))

\* C7 witness: 150 updates were committed and the list holds the 100 last.
C7_Witness ==
    /\ Len(committed["D1"]["temp"]) = 150
    /\ Len(ValuesList("D1", "temp")) = 100
    /\ ValuesList("D1", "temp")[1].timestamp = 150
    /\ ValuesList("D1", "temp")[100].timestamp = 51

\* C8 (as claimed): every entry committed by a handler is in the stored list
\* of its variable (while the cap has not evicted any), whatever other
\* handlers do for the same device, the creation of the entity included.
C8_CommittedEntriesStay ==
    \A d \in Devices : \A v \in Vars :
        Len(committed[d][v]) <= DS_env_vars_MAX_size =>
            \A j \in 1 .. Len(committed[d][v]) :
                \E i \in 1 .. Len(ValuesList(d, v)) :
                    ValuesList(d, v)[i] = committed[d][v][j]

\* ------------------------------------------------------ save_uploaded_image

\* The file an ImageUpload notice names, and two files left in the uploads
\* bucket by uploads no notice took up.
NoticeFiles == {"a.png"}
LeftOver == {[name |-> "old.png", time_created |-> 0 - StaleSeconds],
             [name |-> "new.png", time_created |-> PollSeconds - StaleSeconds]}

UploadMessage(d, f) ==
    [messageType |-> messageType_ImageUpload, deviceId |-> d,
     varName |-> CameraVar, fileName |-> f]

UploadMessages == {UploadMessage(d, f) : d \in Devices, f \in NoticeFiles}

\* isUploadedImageInBucket( CS, file_name, UPLOAD_BUCKET_NAME )
InStaging(f) == \E o \in staging : o.name = f

\* A destination check that never finds the file.
InDestination_Never(f) == FALSE

\* isUploadedImageInBucket( CS, file_name, CS_BUCKET )
InDestination(f) == f \in destFiles

\* dest_image.public_url: the destination bucket and the file name.
UploadURL(f) == <<"CS_BUCKET", f>>

\* The public uploader (a cloud function) puts the file in the uploads bucket.
UploadFile(f) ==
    /\ uploads < MaxUploads
    /\ ~InStaging(f)
    /\ uploads' = uploads + 1
    /\ staging' = staging \cup {[name |-> f, time_created |-> now]}
    /\ UNCHANGED <<pc, loc, received, chunkCache, turdStore, sinks, deviceData,
                   committed, destFiles, now, imageHist>>

\* What an upload handler leaves alone unless it says otherwise.
notUpload == <<chunkCache, turdStore, blobs, deviceData, committed, uploads,
               imageHist>>

\* callback -> save_data -> save_uploaded_image, to the while loop; the first
\* test of the loop is made with delta = 0.  Notices come together when the
\* behaviour starts (a notice and its redeliveries), or when no handler is
\* busy.
ReceiveUpload(h, m) ==
    /\ pc[h] = "idle"
    /\ received < MaxNotices
    /\ now = 0 \/ AllIdle
    /\ received' = received + 1
    /\ loc' = [loc EXCEPT ![h] = [msg |-> m, start |-> now, delta |-> 0,
                                  publicURL |-> <<>>, outcome |-> "polling",
                                  todo |-> <<>>, deleted |-> 0, errors |-> 0]]
    /\ Goto(h, "checkDest")
    /\ UNCHANGED <<notUpload, images, bqRows, staging, destFiles, now>>

\* The polling is over: on to the sweep of the uploads bucket.
EndPolling(h, how) ==
    /\ loc' = [loc EXCEPT ![h].outcome = how]
    /\ Goto(h, "sweep")

\* Has this image already been handled?  If so, break.
CheckDest(h) ==
    /\ pc[h] = "checkDest"
    /\ IF InDestination(loc[h].msg.fileName)
       THEN EndPolling(h, "handled")
       ELSE Goto(h, "checkStaging") /\ UNCHANGED loc
    /\ UNCHANGED <<received, notUpload, images, bqRows, staging, destFiles, now>>

\* Is the file in the uploads bucket?  If not, sleep.
CheckStaging(h) ==
    /\ pc[h] = "checkStaging"
    /\ Goto(h, IF InStaging(loc[h].msg.fileName) THEN "moveGetBlob" ELSE "sleep")
    /\ UNCHANGED <<loc, received, notUpload, images, bqRows, staging, destFiles,
                   now>>

\* Mutant of WithinWindow: the window ends one poll early.
WithinWindow_Strict(delta) == delta < WindowSeconds

\* while delta.total_seconds() <= 5 * 60
WithinWindow(delta) == delta <= WindowSeconds

\* The handlers in time.sleep(10).
Sleepers == {h \in Handlers : pc[h] = "sleep"}

\* Time passes in the sleeps only: the steps between two sleeps take no time
\* and a sleep takes PollSeconds, so the sleepers wake together once no
\* handler is between two sleeps.  Each takes delta and tests the window.
WakeUp ==
    /\ Sleepers # {}
    /\ \A h \in Handlers : pc[h] \in {"idle", "sleep"}
    /\ now' = now + PollSeconds
    /\ loc' = [h \in Handlers |->
                  IF h \in Sleepers
                  THEN [loc[h] EXCEPT
                           !.delta = now + PollSeconds - loc[h].start,
                           !.outcome =
                               IF WithinWindow(now + PollSeconds - loc[h].start)
                               THEN "polling" ELSE "timeout"]
                  ELSE loc[h]]
    /\ pc' = [h \in Handlers |->
                 IF h \in Sleepers
                 THEN IF WithinWindow(now + PollSeconds - loc[h].start)
                      THEN "checkDest" ELSE "sweep"
                 ELSE pc[h]]
    /\ UNCHANGED <<received, notUpload, images, bqRows, staging, destFiles>>

\* The handler ends in the except clause of save_uploaded_image.
Raise(h) ==
    /\ pc' = [pc EXCEPT ![h] = "idle"]
    /\ loc' = [loc EXCEPT ![h] = NoLocals]

\* moveFileBetweenBucketsInCloudStorage: get_bucket, get_blob.  A call that
\* raises is passed over, and the return then reads dest_image, which is not
\* bound: UnboundLocalError.
MoveGetBlob(h) ==
    /\ pc[h] = "moveGetBlob"
    /\ \/ InStaging(loc[h].msg.fileName) /\ Goto(h, "moveCopy") /\ UNCHANGED loc
       \/ ~InStaging(loc[h].msg.fileName) /\ EndPolling(h, "alreadyMoved")
       \/ Raise(h)
    /\ UNCHANGED <<received, notUpload, images, bqRows, staging, destFiles, now>>

\* Mutant of MoveCopy: the copy makes no object and the move goes on.
MoveCopy_NoCopy(h) ==
    /\ pc[h] = "moveCopy"
    /\ Goto(h, "moveDelete")
    /\ UNCHANGED <<loc, destFiles, received, notUpload, images, bqRows,
                   staging, now>>

\* src.copy_blob, make_public.  copy_blob raises when the source is gone or
\* the store fails; dest_image is then not bound.
MoveCopy(h) ==
    /\ pc[h] = "moveCopy"
    /\ \/ /\ InStaging(loc[h].msg.fileName)
          /\ destFiles' = destFiles \cup {loc[h].msg.fileName}
          /\ Goto(h, "moveDelete")
          /\ UNCHANGED loc
       \/ /\ Raise(h)
          /\ UNCHANGED destFiles
    /\ UNCHANGED <<received, notUpload, images, bqRows, staging, now>>

\* src_image.delete(); an exception is passed over.  The public URL of the
\* copy is returned either way.
MoveDelete(h) ==
    /\ pc[h] = "moveDelete"
    /\ \/ staging' = {o \in staging : o.name # loc[h].msg.fileName}
       \/ UNCHANGED staging
    /\ loc' = [loc EXCEPT ![h].publicURL = UploadURL(loc[h].msg.fileName),
                          ![h].outcome = "moved"]
    /\ Goto(h, "saveUploadURL")
    /\ UNCHANGED <<received, notUpload, images, bqRows, destFiles, now>>

\* saveImageURLtoDatastore
SaveUploadURL(h) ==
    /\ pc[h] = "saveUploadURL"
    /\ images' = Append(images, [device_uuid |-> loc[h].msg.deviceId,
                                 URL |-> loc[h].publicURL,
                                 camera_name |-> loc[h].msg.varName])
    /\ Goto(h, "bqInsertUpload")
    /\ UNCHANGED <<loc, received, notUpload, bqRows, staging, destFiles, now>>

\* bq_data_insert of the URL as an env. var, then break.
BqInsertUpload(h) ==
    /\ pc[h] = "bqInsertUpload"
    /\ \/ bqRows' = Append(bqRows,
                       [id |-> RowId("Env", loc[h].msg.varName, now,
                                     loc[h].msg.deviceId),
                        values |-> loc[h].publicURL])
       \/ UNCHANGED bqRows
    /\ Goto(h, "sweep")
    /\ UNCHANGED <<loc, received, notUpload, images, staging, destFiles, now>>

\* bucket.list_blobs(): the objects of the uploads bucket, in the order of
\* their names.
ObjectNames == <<"a.png", "new.png", "old.png">>

ListBlobs ==
    LET names == SelectSeq(ObjectNames, InStaging)
    IN  [i \in 1 .. Len(names) |-> CHOOSE o \in staging : o.name = names[i]]

\* Mutant of IsStale: an object of exactly 2 hours is not stale.
IsStale_Strict(o, t) == t - o.time_created > StaleSeconds

\* delta.total_seconds() >= 2 * 60 * 60, at time t
IsStale(o, t) == t - o.time_created >= StaleSeconds

\* The objects of the uploads bucket that are 2 hours old or more.
StaleObjects == {o \in staging : IsStale(o, now)}

\* After the loop: now is taken and the uploads bucket is listed.  (No time
\* passes until the sweep ends, so the clock stands for the value taken.)
Sweep(h) ==
    /\ pc[h] = "sweep"
    /\ loc' = [loc EXCEPT ![h].todo = ListBlobs]
    /\ Goto(h, "sweepBlob")
    /\ UNCHANGED <<received, notUpload, images, bqRows, staging, destFiles, now>>

\* One turn of the for loop: a stale blob is deleted, by name; a delete that
\* raises (the store fails, or the object is gone) is passed over.
SweepBlob(h) ==
    /\ pc[h] = "sweepBlob"
    /\ loc[h].todo # <<>>
    /\ LET o == Head(loc[h].todo)
       IN  \/ /\ IsStale(o, now)
              /\ InStaging(o.name)
              /\ staging' = {x \in staging : x.name # o.name}
              /\ loc' = [loc EXCEPT ![h].todo = Tail(@), ![h].deleted = @ + 1]
           \/ /\ IsStale(o, now)
              /\ loc' = [loc EXCEPT ![h].todo = Tail(@), ![h].errors = @ + 1]
              /\ UNCHANGED staging
           \/ /\ ~IsStale(o, now)
              /\ loc' = [loc EXCEPT ![h].todo = Tail(@)]
              /\ UNCHANGED staging
    /\ UNCHANGED <<pc, received, notUpload, images, bqRows, destFiles, now>>

\* The list is exhausted: save_uploaded_image returns.
SweepDone(h) ==
    /\ pc[h] = "sweepBlob"
    /\ loc[h].todo = <<>>
    /\ Return(h)
    /\ UNCHANGED <<received, notUpload, images, bqRows, staging, destFiles, now>>

NextUpload ==
    \/ \E f \in NoticeFiles : UploadFile(f)
    \/ WakeUp
    \/ \E h \in Handlers :
        \/ \E m \in UploadMessages : ReceiveUpload(h, m)
        \/ CheckDest(h)
        \/ CheckStaging(h)
        \/ MoveGetBlob(h)
        \/ MoveCopy(h)
        \/ MoveDelete(h)
        \/ SaveUploadURL(h)
        \/ BqInsertUpload(h)
        \/ Sweep(h)
        \/ SweepBlob(h)
        \/ SweepDone(h)

\* The uploads bucket is empty, or holds the files left over.
InitUpload ==
    /\ InitService
    /\ staging \in {{}, LeftOver}
    /\ deviceData = [d \in Devices |-> NoDeviceData]
    /\ committed = [d \in Devices |-> [v \in Vars |-> <<>>]]

SpecUpload == InitUpload /\ [][NextUpload]_vars

\* A step of handler h after it received its notice.
UploadStep(h) ==
    \/ CheckDest(h)
    \/ CheckStaging(h)
    \/ MoveGetBlob(h)
    \/ MoveCopy(h)
    \/ MoveDelete(h)
    \/ SaveUploadURL(h)
    \/ BqInsertUpload(h)
    \/ Sweep(h)
    \/ SweepBlob(h)
    \/ SweepDone(h)

\* The thread of a handler goes on running, and a sleep ends.
SpecUploadLive ==
    /\ SpecUpload
    /\ WF_vars(WakeUp)
    /\ \A h \in Handlers : WF_vars(UploadStep(h))

\* ------------------------------------------------------ claims, upload watcher

\* The steps handler h takes from a destination check that finds the file:
\* the check ends the polling at once, and the rest of the call copies
\* nothing to the destination, moves nothing out of the uploads bucket in the
\* check, and writes neither an image reference nor a warehouse row.
HandledStep(h) ==
    /\ (/\ pc[h] = "checkDest"
        /\ loc[h].msg.fileName \in destFiles
        /\ pc'[h] # "checkDest")
       => /\ pc'[h] = "sweep"
          /\ loc'[h].outcome = "handled"
          /\ loc'[h].delta = loc[h].delta
          /\ UNCHANGED <<destFiles, staging, images, bqRows>>
    /\ (/\ pc[h] \in {"sweep", "sweepBlob"}
        /\ loc[h].outcome = "handled"
        /\ (pc'[h] # pc[h] \/ loc'[h] # loc[h]))
       => /\ pc'[h] \in {"sweepBlob", "idle"}
          /\ UNCHANGED <<destFiles, images, bqRows>>

\* C9: when an ImageUpload notice is handled and its fileName already exists
\* in the destination bucket, the watcher stops polling at once, relocates
\* nothing, writes no image reference and appends no warehouse row.
C9_AlreadyHandledStops == [][\A h \in Handlers : HandledStep(h)]_vars

\* A redelivered notice found its file in the destination on its first check.
C9_Witness ==
    \E h \in Handlers :
        /\ pc[h] = "sweep"
        /\ loc[h].outcome = "handled"
        /\ loc[h].delta = 0
        /\ loc[h].msg.fileName \in destFiles
        /\ Len(images) = 1

\* The image references and the warehouse rows published for file f.
ImageRefsOf(f) == {i \in DOMAIN images : images[i].URL = UploadURL(f)}
UploadRowsOf(f) == {i \in DOMAIN bqRows : bqRows[i].values = UploadURL(f)}

\* C10: for two or more concurrent or redelivered ImageUpload notices naming
\* the same fileName, over every interleaving of their destination check,
\* staging check and relocation steps, at most one image reference and at
\* most one warehouse row are published for that file.
C10_PublishedAtMostOnce ==
    \A f \in NoticeFiles :
        /\ Cardinality(ImageRefsOf(f)) <= 1
        /\ Cardinality(UploadRowsOf(f)) <= 1

\* C12 (as claimed): an invocation that reached the polling stage returns
\* only from the end of the sweep, whatever the outcome of the polling.
C12_SweepAfterPolling ==
    [][\A h \in Handlers :
          (pc[h] # "idle" /\ pc'[h] = "idle") => pc[h] = "sweepBlob"]_vars

\* One turn of the sweep by handler h, on the object at the head of its list.
SweepTurn(h) ==
    LET o == Head(loc[h].todo)
        age == now - o.time_created
    IN  /\ pc'[h] = "sweepBlob"
        /\ loc'[h].todo = Tail(loc[h].todo)
        /\ age < 2 * 60 * 60 => staging' = staging
        /\ age >= 2 * 60 * 60 =>
               \/ /\ \A x \in staging' : x.name # o.name
                  /\ \A x \in staging : x.name # o.name => x \in staging'
               \/ /\ loc'[h].errors = loc[h].errors + 1
                  /\ staging' = staging

\* C13: the sweep deletes every staging object whose age is at least 2 hours
\* and retains every younger one; a delete error on one object is suppressed
\* and the sweep goes on to the remaining objects.
C13_SweepByAge ==
    [][\A h \in Handlers :
          (pc[h] = "sweepBlob" /\ loc[h].todo # <<>> /\ loc'[h] # loc[h])
              => SweepTurn(h)]_vars

\* The delete of new.png, listed first, raised; the sweep went on and deleted
\* old.png.
C13_Witness ==
    \E h \in Handlers :
        /\ pc[h] = "sweepBlob"
        /\ loc[h].todo = <<>>
        /\ loc[h].errors = 1
        /\ loc[h].deleted = 1
        /\ InStaging("new.png")
        /\ ~InStaging("old.png")

\* The file of the notices has not appeared in the uploads bucket, nor in the
\* destination, which gets its files from the uploads bucket.
NeverAppeared == uploads = 0 /\ \A f \in NoticeFiles : ~InStaging(f)

\* What handler h has done when the file has not appeared: it has polled
\* once per 10 s, within 5 minutes of its start, or the window has elapsed
\* and it is in the sweep; nothing was relocated or published.
OnlyPolled(h) ==
    /\ pc[h] \in {"checkDest", "checkStaging", "sleep", "sweep", "sweepBlob"}
    /\ loc[h].delta = now - loc[h].start
    /\ loc[h].delta % 10 = 0
    /\ pc[h] \in {"checkDest", "checkStaging", "sleep"} => loc[h].delta <= 5 * 60
    /\ pc[h] \in {"sweep", "sweepBlob"} =>
           loc[h].outcome = "timeout" /\ loc[h].delta = 5 * 60 + 10
    /\ destFiles = {} /\ images = <<>> /\ bqRows = <<>>

\* C14: if fileName never appears in the staging or the destination bucket,
\* save_uploaded_image stops polling after a bounded number of polls (one per
\* 10 s within the 5-minute window) and terminates, having relocated nothing,
\* written no image reference and appended no warehouse row.
C14_GivesUpAfterWindow ==
    /\ [](NeverAppeared => \A h \in Handlers : pc[h] # "idle" => OnlyPolled(h))
    /\ \A h \in Handlers :
           (pc[h] # "idle") ~> (pc[h] = "idle" \/ ~NeverAppeared)

\* A handler polled through the whole window for a file that never came and
\* is ending its sweep.
C14_Witness ==
    \E h \in Handlers :
        /\ NeverAppeared
        /\ pc[h] = "sweepBlob"
        /\ loc[h].todo = <<>>
        /\ loc[h].outcome = "timeout"
        /\ loc[h].delta = 5 * 60 + 10

\* ------------------------------------------------------------ claims, callback

\* The messageType of m is missing, or is none of the four types.
UnknownType(m) ==
    \/ "messageType" \notin DOMAIN m
    \/ m.messageType \notin {"EnvVar", "CommandReply", "Image", "ImageUpload"}

\* Handler h is past the decoding, in save_data or in a function it calls.
InSaveData(h) ==
    pc[h] \in {"getDevice", "createDevice", "txnGet", "txnCommit",
               "bqInsertData", "insertRows"}

\* Handler h is handling a decoded message of unknown type.
Rejecting(h) ==
    \/ pc[h] = "saveData" /\ loc[h].data.kind = "object"
                          /\ UnknownType(loc[h].data.obj)
    \/ InSaveData(h) /\ UnknownType(loc[h].msg)

\* Handler h takes a step.
Stepped(h) == pc'[h] # pc[h] \/ loc'[h] # loc[h]

\* C15: a decoded message whose messageType is missing or unknown is rejected
\* by save_data with no write to any sink (chunk records, turds, history,
\* image references, blobs, warehouse rows), and the handler returns normally.
C15_UnknownTypeNoWrite ==
    [][\A h \in Handlers :
          (Rejecting(h) /\ Stepped(h)) =>
              /\ UNCHANGED <<chunkCache, turdStore, deviceData, committed,
                             blobs, images, bqRows>>
              /\ \/ pc[h] = "saveData" /\ pc'[h] = "bqInsertData"
                 \/ pc[h] = "bqInsertData" /\ pc'[h] = "idle"]_vars

\* A message of unknown type is in bq_data_insert while the sinks hold what
\* another message wrote.
C15_Witness ==
    \E h \in Handlers :
        /\ pc[h] = "bqInsertData"
        /\ UnknownType(loc[h].msg)
        /\ bqRows # <<>>
        /\ \E d \in Devices : deviceData[d].exists

\* An EnvVar or CommandReply message that lacks the var or the values key.
LacksKeys(m) ==
    /\ ~UnknownType(m)
    /\ m.messageType \in {"EnvVar", "CommandReply"}
    /\ "var" \notin DOMAIN m \/ "values" \notin DOMAIN m

\* C16 (as claimed): the handler of an EnvVar or CommandReply message that
\* lacks a key never gets to the device entity, to the transaction or to the
\* insert_rows call.
C16_KeylessRejected ==
    \A h \in Handlers :
        (InSaveData(h) /\ LacksKeys(loc[h].msg)) => pc[h] = "bqInsertData"

\* C17: every message is acknowledged before its payload is decoded,
\* validated or handled: whatever the decoding or save_data does next, and
\* whatever exception ends the callback, the message was acknowledged.
C17_AckBeforeDecode ==
    [][\A h \in Handlers :
          (pc[h] \in {"decode", "saveData"} /\ Stepped(h)) => loc[h].acked]_vars

\* Bytes that are no JSON are about to be decoded, and were acknowledged.
C17_Witness ==
    \E h \in Handlers :
        /\ pc[h] = "decode"
        /\ loc[h].data.kind = "garbage"
        /\ loc[h].acked

PlacesOf(h, list) == {i \in DOMAIN list : list[i] = loc[h].valueToSave}

\* What holds of handler h in save_data_to_Device and after it, when the
\* messages come one after the other.
RetryState(h) ==
    LET d == loc[h].msg.deviceId
        var == loc[h].msg.var
    IN  /\ loc[h].attempts <= 15
        /\ pc[h] = "txnGet" => loc[h].attempts < 15
        /\ ~loc[h].transactionWorked =>
               \A v \in Vars : PlacesOf(h, deviceData[d].props[v]) = {}
        /\ (pc[h] = "bqInsertData" /\ ~loc[h].transactionWorked) =>
               /\ loc[h].attempts = 15
               /\ deviceData[d].props = loc[h].dd.props
        /\ loc[h].transactionWorked =>
               /\ pc[h] = "bqInsertData"
               /\ PlacesOf(h, deviceData[d].props[var]) = {1}
               /\ \A v \in Vars \ {var} : PlacesOf(h, deviceData[d].props[v]) = {}

C20_InsertRetried ==
    [][\A h \in Handlers :
          (/\ NUM_RETRIES > 1
           /\ pc[h] = "bqInsertData"
           /\ RowListOf(h).rowList # <<>>
           /\ Stepped(h)
           /\ bqRows' = bqRows) => pc'[h] = "bqInsertData"]_vars

\* ------------------------------------------- claims, completion and poison

\* C21 (as claimed): the deletion of a complete chunk set and the writing
\* of the image are one transition: when no handler is at work, an id whose
\* chunk records were deleted because the set was complete has a blob,
\* whether or not the decoding or the blob write failed.
C21_DeleteAndEmitAtomic ==
    \A id \in Ids :
        (AllIdle /\ completions[id] > 0 /\ ChunksOf(id) = <<>>) =>
            BlobsOf(id) # <<>>

\* C22 (as claimed): abandoned is terminal.  With messages handled one after
\* the other, once a poison chunk was received for an id, the handling of a
\* later chunk of that id stores no chunk record and writes no blob.
C22_AbandonedIsTerminal ==
    [][\A h \in Handlers :
          (/\ pc[h] \in {"saveChunk", "saveFile"}
           /\ poisons[<<loc[h].msg.deviceId, loc[h].msg.messageID>>] > 0)
              => (chunkCache' = chunkCache /\ blobs' = blobs)]_vars

\* The distinct chunk indices stored for an id.
StoredIndices(id) == {ChunksOf(id)[k].chunkNum : k \in 1 .. Len(ChunksOf(id))}

\* C23 (as claimed): after storing its chunk the handler takes the id from
\* Partial to Complete exactly when the number of distinct chunk indices
\* stored for the id equals the declared totalChunks, an index that is not
\* below totalChunks counting as one.
C23_CompleteByCount ==
    [][\A h \in Handlers :
          (pc[h] = "getChunks" /\ Stepped(h)) =>
              (pc'[h] = "deleteChunks" <=>
                  Cardinality(StoredIndices(<<loc[h].msg.deviceId,
                                              loc[h].msg.messageID>>))
                      = loc[h].msg.totalChunks)]_vars

\* C25 (as claimed), for traffic of the length the model has: with messages
\* handled one after the other, a chunk record does not stay stored once two
\* chunk records of other messageIds of its device were stored after it and
\* none of its own messageId; the traffic of the device for other messageIds
\* has by then deleted the abandoned set, poisoned or not.
C25_AbandonedSetCollected ==
    AllIdle =>
        \A j \in 1 .. Len(chunkCache) :
            LET later == {n \in (j + 1) .. Len(chunkCache) :
                             chunkCache[n].deviceId = chunkCache[j].deviceId}
            IN  (\A n \in later :
                     chunkCache[n].messageId # chunkCache[j].messageId)
                    => Cardinality(later) < 2

\* ------------------------------------------------------- claims, reaping

\* The ids the reaping of handler h is to delete: those of its device that
\* have a turd and another messageId than its message.
ReapedBy(h) ==
    {id \in Ids : /\ id[1] = loc[h].msg.deviceId
                  /\ id[2] # loc[h].msg.messageID
                  /\ turdStore[id] > 0}

\* Handler h is past the reaping, in the handling of a non-empty chunk.
PastReaping(h) ==
    pc[h] \in {"saveChunk", "getChunks", "deleteChunks", "saveFile",
               "saveImageURL", "bqInsertImage"}

C29_NewestFirstByTimestamp ==
    \A d \in Devices : \A v \in Vars :
        \A i \in 1 .. (Len(ValuesList(d, v)) - 1) :
            ValuesList(d, v)[i].timestamp >= ValuesList(d, v)[i + 1].timestamp

\* ------------------------------------------------ claims, warehouse rows

\* C30 (as claimed): makeBQRowList returns True exactly when it added a row:
\* in a handler that is in bq_data_insert, the value returned for its
\* message is True if and only if the row list made for it is not empty.
C30_TrueIffRowAdded ==
    \A h \in Handlers :
        pc[h] \in {"bqInsertData", "insertRows"} =>
            (RowListOf(h).ret <=> RowListOf(h).rowList # <<>>)

\* --------------------------------------------------- claims, relocation

\* C27: relocation never loses the object.  In every state a file that was
\* uploaded is in the uploads bucket or in the destination bucket, and a
\* step of moveFileBetweenBucketsInCloudStorage that takes an object out of
\* the uploads bucket is the delete, taken with the copy in the destination;
\* a copy or a delete that fails changes neither bucket's hold of the file.
C27_RelocationKeepsFile ==
    /\ [](\A f \in NoticeFiles :
              uploads > 0 => (InStaging(f) \/ InDestination(f)))
    /\ [][\A h \in Handlers :
              (/\ pc[h] \in {"moveGetBlob", "moveCopy", "moveDelete"}
               /\ Stepped(h)
               /\ staging' # staging) =>
                  /\ pc[h] = "moveDelete"
                  /\ InDestination(loc[h].msg.fileName)
                  /\ staging' = {o \in staging : o.name # loc[h].msg.fileName}]_vars

\* C27 witness: the copy and the delete were made; the file is in the
\* destination and no longer in the uploads bucket.
C27_Witness ==
    \E h \in Handlers :
        /\ pc[h] = "saveUploadURL"
        /\ ~InStaging(loc[h].msg.fileName)
        /\ InDestination(loc[h].msg.fileName)

\* C28 (as claimed): moveFileBetweenBucketsInCloudStorage does not raise.
\* A bucket lookup, source lookup or copy that fails makes it return None,
\* which save_uploaded_image takes as 'already moved' and goes to the sweep:
\* no step of the move ends the handler, and a reference is published only
\* for a file that is in the destination.
C28_MoveReturnsNoneOnError ==
    [][\A h \in Handlers :
          /\ (pc[h] \in {"moveGetBlob", "moveCopy"} /\ Stepped(h)) =>
                 pc'[h] \in {"moveCopy", "moveDelete", "sweep"}
          /\ (pc[h] = "saveUploadURL" /\ Stepped(h)) =>
                 InDestination(loc[h].msg.fileName)]_vars

\* C26 (as claimed): in each poll the destination check precedes the staging
\* check; a watcher that finds the file absent from the destination and
\* present in the uploads bucket goes on to relocate it; when it records the
\* image reference the file is in the destination and that reference is the
\* one reference of the file; the warehouse row it appends is the one row
\* of the file; and from there it goes to the sweep, the polling over.
C26_FoundFileRelocatedOnce ==
    [][\A h \in Handlers :
          /\ (pc'[h] = "checkStaging" /\ pc[h] # "checkStaging") =>
                 (pc[h] = "checkDest" /\ ~InDestination(loc[h].msg.fileName))
          /\ (pc[h] = "checkStaging" /\ Stepped(h)
              /\ InStaging(loc[h].msg.fileName)) => pc'[h] = "moveGetBlob"
          /\ (pc[h] = "saveUploadURL" /\ Stepped(h)) =>
                 /\ InDestination(loc[h].msg.fileName)
                 /\ Cardinality({i \in DOMAIN images' : images'[i].URL =
                                    UploadURL(loc[h].msg.fileName)}) = 1
          /\ (pc[h] = "bqInsertUpload" /\ Stepped(h)) =>
                 /\ pc'[h] = "sweep"
                 /\ bqRows' # bqRows =>
                        Cardinality({i \in DOMAIN bqRows' : bqRows'[i].values =
                                        UploadURL(loc[h].msg.fileName)}) = 1]_vars

\* ------------------------------------------------- claims, frame of update

\* Handler h is in save_data_to_Device, from the read of the entity to the
\* end of the retry loop.
InDeviceUpdate(h) ==
    pc[h] \in {"getDevice", "createDevice", "txnGet", "txnCommit"}

\* C31 (as claimed): a step of a save_data_to_Device update for variable v
\* of device D leaves the lists of every other variable of D and of every
\* other device as they are, and leaves the list of v as it is or puts the
\* value in front of it, only entries beyond the cap of 100, the oldest,
\* leaving the list.
C31_UpdateTouchesOwnListOnly ==
    [][\A h \in Handlers :
          (InDeviceUpdate(h) /\ Stepped(h)) =>
              \A d \in Devices : \A v \in Vars :
                  \/ deviceData'[d].props[v] = ValuesList(d, v)
                  \/ /\ d = loc[h].msg.deviceId
                     /\ v = loc[h].msg.var
                     /\ deviceData'[d].props[v] =
                            <<loc[h].valueToSave>> \o
                                SubSeq(ValuesList(d, v), 1,
                                       Min(Len(ValuesList(d, v)),
                                           DS_env_vars_MAX_size - 1))]_vars

====
